---- MODULE Spec2Model ----
(***************************************************************************)
(* Model of jacobs_register_helper.h: registers declared by the            *)
(* DECLARE_REGISTER_{16,32}[_WITH_PERMS] macros, with the per-field        *)
(* get_<field>/set_<field> methods generated by the IMPLEMENT_REGISTER_*   *)
(* macros and the whole-register get/set/clear methods.                     *)
(*                                                                         *)
(* An unsigned integer is represented by the set of the positions of its   *)
(* 1 bits (bit 0 is the least significant): 0x13 is {0, 1, 4}.  The C++    *)
(* operators act on that representation bit for bit, and every conversion  *)
(* to a narrower type drops the bits the type cannot hold.                 *)
(***************************************************************************)
EXTENDS Integers, FiniteSets, Sequences

VARIABLES decl,          \* the register class: width, kind, declared fields
          register_raw,  \* the private member register_raw
          call,          \* the last method call, its argument and its result
          written        \* history: the value the last set_register_value or
                         \* clear_register_value stored (0 if there was none)

vars == <<decl, register_raw, call, written>>

----------------------------------------------------------------------------
(* Bounds of the model. *)

\* Number of periodic bit patterns (beyond all-ones) offered as raw values
\* and field values.
MaxPattern == 1

\* Largest number of undeclared bits between the two fields of a two-field
\* register.
MaxGap == 1

\* Largest number of fields of a register whose set_<field> methods are
\* given every value of FieldInputs; the methods of a register with more
\* fields are given the largest value that fits and the smallest that does
\* not.
MaxPatternFields == 4

----------------------------------------------------------------------------
(* C++ integer types and operators on bit sets. *)

\* Width of uint16_t, the type of buffer and of every get_<field> result.
UINT16_BITS == 16
\* Width of int / unsigned int / uint32_t.
INT_BITS == 32

BitsOf(w) == 0 .. (w - 1)

\* Conversion to an unsigned type of w bits (modulo 2^w).
Trunc(x, w) == x \cap BitsOf(w)

\* x >> n
Shr(x, n) == {b - n : b \in {c \in x : c >= n}}

\* x << n evaluated in a type of w bits; bits shifted past the top are lost.
Shl(x, n, w) == {b + n : b \in x} \cap BitsOf(w)

\* ~x evaluated in a type of w bits.
Not(x, w) == BitsOf(w) \ x

\* A bool converted to an integer type: false is 0, true is 1.
FromBool(b) == IF b THEN {0} ELSE {}

\* The literals 0xFFFF (an int) and 0xFFFF'FFFF (an unsigned int).
Lit_FFFF == BitsOf(16)
Lit_FFFFFFFF == BitsOf(32)

\* Faulty variant: value > (1 << n), which lets the value 2^n through.
ValueGtShl1(value, n, ub) ==
    IF n >= INT_BITS THEN ub
    ELSE \/ \E b \in value : b > n
         \/ (n \in value /\ value # {n})

\* value >= (1 << n).  For n < 31 the right side is the int 2^n; for n = 31
\* it is INT_MIN, converted to unsigned 2^31 by the comparison with a
\* uint32_t.  For n >= 32 the shift is undefined: ub is the outcome the build
\* produces for the comparison.
ValueGeShl1(value, n, ub) ==
    IF n >= INT_BITS THEN ub ELSE \E b \in value : b >= n

----------------------------------------------------------------------------
(* enum class REGISTER_PERMS *)

NONE == 0
READ == 1
WRITE == 2
READ_WRITE == 3

\* Faulty variants: each accessor tests the other accessor's bit.
AllowedRead_WriteBit(PERMS) == ((PERMS \div 2) % 2) # 0
AllowedWrite_ReadBit(PERMS) == (PERMS % 2) # 0

\* Faulty variant: the permission is compared with READ instead of tested
\* for the read bit.
AllowedRead_EqualsRead(PERMS) == PERMS = READ

\* static_cast<uint8_t>(PERMS) & 0b01, & 0b10, converted to bool
AllowedRead(PERMS) == (PERMS % 2) # 0
AllowedWrite(PERMS) == ((PERMS \div 2) % 2) # 0

----------------------------------------------------------------------------
(* The generated field accessors.  A getter yields the returned uint16_t;  *)
(* a setter yields the returned bool and the new register_raw.             *)

IMPLEMENT_REGISTER_16_GET(raw, START, END) ==
    LET buffer == Trunc(Shr(raw, START), UINT16_BITS)
    IN  Trunc(buffer \cap Shr(Lit_FFFF, 15 - (END - START)), UINT16_BITS)

\* Faulty variant: the mask is built from END instead of END - START, so it
\* covers END + 1 bits from START on.
IMPLEMENT_REGISTER_16_SET_MaskTooWide(raw, START, END, value, ub) ==
    IF ValueGeShl1(value, END - START + 1, ub)
    THEN [ret |-> FALSE, raw |-> raw]
    ELSE LET mask == Trunc(Not(Shl(Shr(Lit_FFFF, 15 - END),
                                   START, INT_BITS), INT_BITS), 16)
             shifted == Trunc(Shl(value, START, INT_BITS), 16)
         IN  [ret |-> TRUE, raw |-> (raw \cap mask) \cup shifted]

IMPLEMENT_REGISTER_16_SET(raw, START, END, value, ub) ==
    IF ValueGeShl1(value, END - START + 1, ub)
    THEN [ret |-> FALSE, raw |-> raw]
    ELSE LET mask == Trunc(Not(Shl(Shr(Lit_FFFF, 15 - (END - START)),
                                   START, INT_BITS), INT_BITS), 16)
             shifted == Trunc(Shl(value, START, INT_BITS), 16)
         IN  [ret |-> TRUE, raw |-> (raw \cap mask) \cup shifted]

IMPLEMENT_REGISTER_32_GET(raw, START, END) ==
    LET buffer == Trunc(Shr(raw, START), UINT16_BITS)
    IN  Trunc(buffer \cap Shr(Lit_FFFFFFFF, 31 - (END - START)), UINT16_BITS)

\* Faulty variant: the mask is not shifted to START, so the write clears the
\* low bits of the register instead of the field's bits.
IMPLEMENT_REGISTER_32_SET_MaskNotShifted(raw, START, END, value, ub) ==
    IF ValueGeShl1(value, END - START + 1, ub)
    THEN [ret |-> FALSE, raw |-> raw]
    ELSE LET mask == Not(Shr(Lit_FFFFFFFF, 31 - (END - START)), INT_BITS)
             shifted == Shl(value, START, INT_BITS)
         IN  [ret |-> TRUE, raw |-> (raw \cap mask) \cup shifted]

IMPLEMENT_REGISTER_32_SET(raw, START, END, value, ub) ==
    IF ValueGeShl1(value, END - START + 1, ub)
    THEN [ret |-> FALSE, raw |-> raw]
    ELSE LET mask == Not(Shl(Shr(Lit_FFFFFFFF, 31 - (END - START)),
                             START, INT_BITS), INT_BITS)
             shifted == Shl(value, START, INT_BITS)
         IN  [ret |-> TRUE, raw |-> (raw \cap mask) \cup shifted]

IMPLEMENT_REGISTER_16_GET_WITH_PERMS(raw, START, END, PERMS) ==
    IF ~AllowedRead(PERMS)
    THEN FromBool(FALSE)
    ELSE LET buffer == Trunc(Shr(raw, START), UINT16_BITS)
         IN  Trunc(buffer \cap Shr(Lit_FFFF, 15 - (END - START)), UINT16_BITS)

IMPLEMENT_REGISTER_16_SET_WITH_PERMS(raw, START, END, PERMS, value, ub) ==
    IF ~AllowedWrite(PERMS)
    THEN [ret |-> FALSE, raw |-> raw]
    ELSE IF ValueGeShl1(value, END - START + 1, ub)
    THEN [ret |-> FALSE, raw |-> raw]
    ELSE LET mask == Trunc(Not(Shl(Shr(Lit_FFFF, 15 - (END - START)),
                                   START, INT_BITS), INT_BITS), 16)
             shifted == Trunc(Shl(value, START, INT_BITS), 16)
         IN  [ret |-> TRUE, raw |-> (raw \cap mask) \cup shifted]

IMPLEMENT_REGISTER_32_GET_WITH_PERMS(raw, START, END, PERMS) ==
    IF ~AllowedRead(PERMS)
    THEN FromBool(FALSE)
    ELSE LET buffer == Trunc(Shr(raw, START), UINT16_BITS)
         IN  Trunc(buffer \cap Shr(Lit_FFFFFFFF, 31 - (END - START)),
                   UINT16_BITS)

\* Faulty variant: the clearing mask is left at bit 0 instead of being
\* shifted to START.
IMPLEMENT_REGISTER_32_SET_WITH_PERMS_MaskNotShifted(raw, START, END, PERMS, value, ub) ==
    IF ~AllowedWrite(PERMS)
    THEN [ret |-> FALSE, raw |-> raw]
    ELSE IF ValueGeShl1(value, END - START + 1, ub)
    THEN [ret |-> FALSE, raw |-> raw]
    ELSE LET mask == Not(Shr(Lit_FFFFFFFF, 31 - (END - START)), INT_BITS)
             shifted == Shl(value, START, INT_BITS)
         IN  [ret |-> TRUE, raw |-> (raw \cap mask) \cup shifted]

IMPLEMENT_REGISTER_32_SET_WITH_PERMS(raw, START, END, PERMS, value, ub) ==
    IF ~AllowedWrite(PERMS)
    THEN [ret |-> FALSE, raw |-> raw]
    ELSE IF ValueGeShl1(value, END - START + 1, ub)
    THEN [ret |-> FALSE, raw |-> raw]
    ELSE LET mask == Not(Shl(Shr(Lit_FFFFFFFF, 31 - (END - START)),
                             START, INT_BITS), INT_BITS)
             shifted == Shl(value, START, INT_BITS)
         IN  [ret |-> TRUE, raw |-> (raw \cap mask) \cup shifted]

----------------------------------------------------------------------------
(* Register declarations. *)

\* The static_asserts of every IMPLEMENT_REGISTER_* macro, for width W.
StaticAssert(W, START, END) ==
    /\ START >= 0 /\ START < W
    /\ END >= 0 /\ END < W /\ END >= START

ValidRanges(W) ==
    {r \in BitsOf(W) \X BitsOf(W) : StaticAssert(W, r[1], r[2])}

Perms == {NONE, READ, WRITE, READ_WRITE}

\* DECLARE_REGISTER_16 / DECLARE_REGISTER_32 with the given fields.
DECLARE_REGISTER(W, fields) ==
    [width |-> W, with_perms |-> FALSE, fields |-> fields]

\* DECLARE_REGISTER_16_WITH_PERMS / DECLARE_REGISTER_32_WITH_PERMS.
DECLARE_REGISTER_WITH_PERMS(W, fields) ==
    [width |-> W, with_perms |-> TRUE, fields |-> fields]

Field(START, END, PERMS) == [start |-> START, end |-> END, perms |-> PERMS]

\* Every register with one field, for every range the static_asserts accept.
\* A field of a register without permissions carries READ_WRITE, which no
\* accessor of such a register reads.
SingleFieldRegisters ==
    UNION {
        {DECLARE_REGISTER(W, <<Field(r[1], r[2], READ_WRITE)>>)
            : r \in ValidRanges(W)}
        \cup
        {DECLARE_REGISTER_WITH_PERMS(W, <<Field(r[1], r[2], p)>>)
            : r \in ValidRanges(W), p \in Perms}
        : W \in {16, 32}}

\* README.md, "Permission Protected Registers".
port_state_register ==
    DECLARE_REGISTER_WITH_PERMS(16,
        << Field(0, 3, READ_WRITE), Field(4, 7, READ),
           Field(8, 11, WRITE), Field(12, 15, NONE) >>)

\* example/main.cpp: link_capabilites_register, its eleven fields in the
\* order declared.  Bit 23 belongs to no field.
link_capabilites_register ==
    DECLARE_REGISTER(32,
        << Field(0, 3, READ_WRITE),      \* max_link_speed
           Field(4, 9, READ_WRITE),      \* max_link_width
           Field(10, 11, READ_WRITE),    \* aspm_support
           Field(12, 14, READ_WRITE),    \* l0s_exit_latency
           Field(15, 17, READ_WRITE),    \* l1_exit_latency
           Field(18, 18, READ_WRITE),    \* clock_power_management
           Field(19, 19, READ_WRITE),    \* surprise_down_error_reporting_capable
           Field(20, 20, READ_WRITE),    \* data_link_layer_link_active_reporting_capable
           Field(21, 21, READ_WRITE),    \* link_bandwidth_notification_capability
           Field(22, 22, READ_WRITE),    \* aspm_optionality_compliance
           Field(24, 31, READ_WRITE) >>) \* port_number

\* example/main.cpp: link_control_register, its ten fields in the order
\* declared.  Bits 2 and 12..15 belong to no field.
link_control_register ==
    DECLARE_REGISTER_WITH_PERMS(16,
        << Field(0, 1, READ_WRITE),      \* aspm_control
           Field(3, 3, READ),            \* root_completion_boundary
           Field(4, 4, READ_WRITE),      \* link_disable
           Field(5, 5, READ_WRITE),      \* retrain_link
           Field(6, 6, READ_WRITE),      \* common_clock_configuration
           Field(7, 7, READ_WRITE),      \* extended_sync
           Field(8, 8, READ_WRITE),      \* enable_clock_power_management
           Field(9, 9, READ_WRITE),      \* hardware_autonomous_width_disable
           Field(10, 10, READ_WRITE),    \* link_bandwidth_management_interrupt_enable
           Field(11, 11, READ_WRITE) >>) \* link_autonomous_bandwidth_interrupt_enable

\* The registers the repository declares itself.
ExampleRegisters ==
    {port_state_register, link_capabilites_register, link_control_register}

\* Two disjoint fields that together reach from bit 0 to bit W-1, with g
\* undeclared bits between them: A = [0, b] and B = [b+1+g, W-1].
PairRanges(W) ==
    {<<b, b + 1 + g>> : b \in 0 .. (W - 2), g \in 0 .. MaxGap}
      \cap (BitsOf(W) \X BitsOf(W))

\* Every such register without permissions, and with permissions where one
\* field is not writable and the other is.
PairRegisters ==
    UNION {
        {DECLARE_REGISTER(W, << Field(0, r[1], READ_WRITE),
                                Field(r[2], W - 1, READ_WRITE) >>)
            : r \in PairRanges(W)}
        \cup
        {DECLARE_REGISTER_WITH_PERMS(W, << Field(0, r[1], p[1]),
                                           Field(r[2], W - 1, p[2]) >>)
            : r \in PairRanges(W),
              p \in {<<READ, READ_WRITE>>, <<WRITE, NONE>>}}
        : W \in {16, 32}}

\* The registers with several fields.
MultiFieldRegisters ==
    PairRegisters \cup ExampleRegisters

Declarations ==
    SingleFieldRegisters \cup ExampleRegisters

----------------------------------------------------------------------------
(* Inputs. *)

\* 0xDEADBEEF, the value example/main.cpp loads.
Lit_DEADBEEF ==
    {0, 1, 2, 3, 5, 6, 7, 9, 10, 11, 12, 13, 15,
     16, 18, 19, 21, 23, 25, 26, 27, 28, 30, 31}

\* Pattern k has a 1 at every (k+1)-th bit: pattern 0 is all ones.
Pattern(k, W) == {b \in BitsOf(W) : b % (k + 1) = 0}

\* Arguments of set_register_value, already of the parameter's type.
RawInputs(W) ==
    {Pattern(k, W) : k \in 0 .. MaxPattern} \cup {Trunc(Lit_DEADBEEF, W), {}}

\* Arguments of set_<field> for a field of n bits: values that fit, the
\* smallest value that does not (2^n), and values of the full parameter type.
FieldInputs(W, n) ==
    LET P == {Pattern(k, W) : k \in 0 .. MaxPattern}
    IN  P \cup {Trunc(x, n) : x \in P} \cup {Trunc({n}, W), {}}

----------------------------------------------------------------------------
(* The register object.  A call records the method, the field it was made  *)
(* on, its argument, the value it returned (a bool as 0 or 1, nothing as   *)
(* 0) and register_raw before it.                                          *)

Call(op, f, value, ret, before) ==
    [op |-> op, field |-> f, value |-> value, ret |-> ret, before |-> before]

\* NAME() {} with the member initializer register_raw = 0x0.
Init ==
    /\ decl \in Declarations
    /\ register_raw = {}
    /\ call = Call("construct", 0, {}, {}, {})
    /\ written = {}

get_register_value ==
    /\ call' = Call("get_register_value", 0, {}, register_raw,
                    register_raw)
    /\ UNCHANGED <<decl, register_raw, written>>

\* Faulty variant: the statement compares (register_raw == 0x0) and assigns
\* nothing.
clear_register_value_NoAssign ==
    /\ call' = Call("clear_register_value", 0, {}, {}, register_raw)
    /\ UNCHANGED <<decl, register_raw, written>>

clear_register_value ==
    /\ register_raw' = {}
    /\ call' = Call("clear_register_value", 0, {}, {}, register_raw)
    /\ written' = {}
    /\ UNCHANGED decl

\* The bits of the fields that set_<field> may not write.
WriteProtectedBits(d) ==
    IF d.with_perms
    THEN UNION {d.fields[f].start .. d.fields[f].end
                  : f \in {g \in DOMAIN d.fields
                             : ~AllowedWrite(d.fields[g].perms)}}
    ELSE {}

\* Faulty variant: the parameter is a uint16_t in the 32-bit classes too.
set_register_value_Uint16(value) ==
    /\ register_raw' = Trunc(value, UINT16_BITS)
    /\ call' = Call("set_register_value", 0, value, {}, register_raw)
    /\ written' = value
    /\ UNCHANGED decl

\* Variant that applies the field permissions to the whole-register write.
set_register_value_Guarded(value) ==
    /\ register_raw' = (value \ WriteProtectedBits(decl))
                       \cup (register_raw \cap WriteProtectedBits(decl))
    /\ call' = Call("set_register_value", 0, value, {}, register_raw)
    /\ written' = value
    /\ UNCHANGED decl

set_register_value(value) ==
    /\ register_raw' = value
    /\ call' = Call("set_register_value", 0, value, {}, register_raw)
    /\ written' = value
    /\ UNCHANGED decl

\* The get_<field> method the declaration generates for field f.
GetField(d, raw, f) ==
    LET fd == d.fields[f] IN
    IF d.with_perms
    THEN IF d.width = 16
         THEN IMPLEMENT_REGISTER_16_GET_WITH_PERMS(raw, fd.start, fd.end,
                                                   fd.perms)
         ELSE IMPLEMENT_REGISTER_32_GET_WITH_PERMS(raw, fd.start, fd.end,
                                                   fd.perms)
    ELSE IF d.width = 16
         THEN IMPLEMENT_REGISTER_16_GET(raw, fd.start, fd.end)
         ELSE IMPLEMENT_REGISTER_32_GET(raw, fd.start, fd.end)

\* The set_<field> method the declaration generates for field f.
SetField(d, raw, f, value, ub) ==
    LET fd == d.fields[f] IN
    IF d.with_perms
    THEN IF d.width = 16
         THEN IMPLEMENT_REGISTER_16_SET_WITH_PERMS(raw, fd.start, fd.end,
                                                   fd.perms, value, ub)
         ELSE IMPLEMENT_REGISTER_32_SET_WITH_PERMS(raw, fd.start, fd.end,
                                                   fd.perms, value, ub)
    ELSE IF d.width = 16
         THEN IMPLEMENT_REGISTER_16_SET(raw, fd.start, fd.end, value, ub)
         ELSE IMPLEMENT_REGISTER_32_SET(raw, fd.start, fd.end, value, ub)

\* Faulty variant: the getter shifts the member itself
\* (register_raw >>= START) instead of a copy.
get_field_ShiftsMember(f) ==
    /\ register_raw' = Shr(register_raw, decl.fields[f].start)
    /\ call' = Call("get_field", f, {}, GetField(decl, register_raw, f),
                    register_raw)
    /\ UNCHANGED <<decl, written>>

get_field(f) ==
    /\ call' = Call("get_field", f, {}, GetField(decl, register_raw, f),
                    register_raw)
    /\ UNCHANGED <<decl, register_raw, written>>

\* ub is read only when the range check shifts by the full width of int.
set_field(f, value, ub) ==
    LET r == SetField(decl, register_raw, f, value, ub) IN
    /\ register_raw' = r.raw
    /\ call' = Call("set_field", f, value, FromBool(r.ret), register_raw)
    /\ UNCHANGED <<decl, written>>

FieldWidth(fd) == fd.end - fd.start + 1

\* Whether the range check of set_<field> has undefined behaviour.
ShiftUndefined(fd) == FieldWidth(fd) >= INT_BITS

\* The shifts the accessors evaluate, each with its shift amount and the
\* width of the (promoted) left operand.  uint16_t operands and the literals
\* 1 and 0xFFFF are shifted as int, uint32_t operands and 0xFFFF'FFFF as
\* unsigned int: 32 bits in every case.
Shift(amount, bits) == [amount |-> amount, bits |-> bits]

\* register_raw >> START and 0xFFFF >> (15 - (END - START)), for width W.
GetShifts(W, START, END) ==
    {Shift(START, INT_BITS), Shift((W - 1) - (END - START), INT_BITS)}

\* 1 << (END - START + 1) in the range check.
SetCheckShifts(START, END) == {Shift(END - START + 1, INT_BITS)}

\* (0xFFFF >> (15 - (END - START))) << START and value << START.
SetWriteShifts(W, START, END) ==
    {Shift((W - 1) - (END - START), INT_BITS), Shift(START, INT_BITS)}

\* The shifts call c evaluated on a register of declaration d: none when the
\* permission check returned early, only the range check's when it failed.
ShiftsEvaluated(d, c) ==
    IF c.op = "get_field"
    THEN LET fd == d.fields[c.field] IN
         IF d.with_perms /\ ~AllowedRead(fd.perms) THEN {}
         ELSE GetShifts(d.width, fd.start, fd.end)
    ELSE IF c.op = "set_field"
    THEN LET fd == d.fields[c.field] IN
         IF d.with_perms /\ ~AllowedWrite(fd.perms) THEN {}
         ELSE SetCheckShifts(fd.start, fd.end)
              \cup (IF c.ret = FromBool(TRUE)
                    THEN SetWriteShifts(d.width, fd.start, fd.end) ELSE {})
    ELSE {}

\* What the range check's comparison can yield where it is undefined; where
\* it is defined the parameter is not read.
UndefinedOutcomes(fd) == IF ShiftUndefined(fd) THEN BOOLEAN ELSE {FALSE}

\* Arguments of set_<field> for field f of declaration d.  Every set_<field>
\* of every register is called in every state; only the values passed are
\* fewer for a register with many fields.
SetFieldInputs(d, f) ==
    LET n == FieldWidth(d.fields[f]) IN
    IF Len(d.fields) <= MaxPatternFields
    THEN FieldInputs(d.width, n)
    ELSE FieldInputs(d.width, n) \cap {BitsOf(n), Trunc({n}, d.width)}

Next ==
    \/ get_register_value
    \/ clear_register_value
    \/ \E value \in RawInputs(decl.width) : set_register_value(value)
    \/ \E f \in DOMAIN decl.fields : get_field(f)
    \/ \E f \in DOMAIN decl.fields :
         \E value \in SetFieldInputs(decl, f) :
           \E ub \in UndefinedOutcomes(decl.fields[f]) :
             set_field(f, value, ub)

Spec == Init /\ [][Next]_vars

\* The same object, declared with several fields.
InitMultiField ==
    /\ decl \in MultiFieldRegisters
    /\ register_raw = {}
    /\ call = Call("construct", 0, {}, {}, {})
    /\ written = {}

SpecMultiField == InitMultiField /\ [][Next]_vars

----------------------------------------------------------------------------
(* Reference notions the properties are stated with. *)

\* The bit positions of a field.
FieldBits(fd) == fd.start .. fd.end

\* The field's bits of raw, right-aligned to bit 0.
FieldValue(raw, fd) == {b - fd.start : b \in raw \cap FieldBits(fd)}

\* v < 2^n
Fits(v, n) == v \subseteq BitsOf(n)

\* The bits that belong to some field of the declaration.
CoveredBits(d) == UNION {FieldBits(d.fields[f]) : f \in DOMAIN d.fields}

\* Whether two fields share no bit.
Disjoint(fa, fb) == FieldBits(fa) \cap FieldBits(fb) = {}

\* The values offered to set_<field> that fit the field.
FittingInputs(W, fd) ==
    {v \in FieldInputs(W, FieldWidth(fd)) : Fits(v, FieldWidth(fd))}

\* The field the last call was made on (for get_field and set_field).
CalledField == decl.fields[call.field]

\* register_raw is a value of the register's width.
TypeOK ==
    /\ decl \in Declarations \cup MultiFieldRegisters
    /\ register_raw \subseteq BitsOf(decl.width)

----------------------------------------------------------------------------
(* Properties. *)

\* C1 (as claimed): on a register without permission checks, set_<field>(v)
\* with v < 2^(end-start+1) followed by get_<field>() returns v.
C1_FieldRoundTrip ==
    [][ ( /\ ~decl.with_perms
          /\ call.op = "set_field"
          /\ Fits(call.value, FieldWidth(CalledField))
          /\ call'.op = "get_field"
          /\ call'.field = call.field )
        => call'.ret = call.value ]_vars

\* C2: a set_<field> that returns true leaves every bit of register_raw
\* outside start..end as it was before the call.
C2_SetIsolation ==
    (call.op = "set_field" /\ call.ret = FromBool(TRUE))
    => (register_raw \ FieldBits(CalledField))
         = (call.before \ FieldBits(CalledField))

\* A successful write of a non-zero value into a field that changed, with
\* 1 bits of the register both below and above the field.
C2_Witness ==
    /\ call.op = "set_field" /\ call.ret = FromBool(TRUE)
    /\ decl.width = 32 /\ ~decl.with_perms
    /\ call.value # {}
    /\ FieldValue(call.before, CalledField) # call.value
    /\ \E b \in call.before : b < CalledField.start
    /\ \E b \in call.before : b > CalledField.end

\* C3: set_<field>(v) with v >= 2^(end-start+1) returns false and leaves
\* register_raw as it was.
C3_OutOfRangeRejected ==
    (call.op = "set_field" /\ ~Fits(call.value, FieldWidth(CalledField)))
    => (call.ret = FromBool(FALSE) /\ register_raw = call.before)

\* The smallest value that does not fit, 2^(end-start+1), was offered to a
\* field of a register without permissions whose raw value is not 0.
C3_Witness ==
    /\ call.op = "set_field" /\ ~decl.with_perms
    /\ call.value = {FieldWidth(CalledField)}
    /\ call.before # {}
    /\ call.ret = FromBool(FALSE)

\* C4: on a permission-checked register, set_<field>(v) on a READ or NONE
\* field returns false for every v and leaves register_raw as it was.
C4_WriteDenied ==
    ( /\ decl.with_perms /\ call.op = "set_field"
      /\ CalledField.perms \in {READ, NONE} )
    => (call.ret = FromBool(FALSE) /\ register_raw = call.before)

\* A value that fits and differs from the field's content was written to a
\* READ field of a register whose raw value is not 0.
C4_Witness ==
    /\ decl.with_perms /\ call.op = "set_field"
    /\ CalledField.perms = READ
    /\ Fits(call.value, FieldWidth(CalledField))
    /\ call.value # FieldValue(call.before, CalledField)
    /\ call.before # {}
    /\ call.ret = FromBool(FALSE)

\* C5: on a permission-checked register, get_<field>() on a WRITE or NONE
\* field returns 0 whatever register_raw holds, so the result does not
\* depend on the field's bits.
C5_ReadDenied ==
    ( /\ decl.with_perms /\ call.op = "get_field"
      /\ CalledField.perms \in {WRITE, NONE} )
    => call.ret = {}

\* A WRITE field whose bits are not all 0 was read.
C5_Witness ==
    /\ decl.with_perms /\ call.op = "get_field"
    /\ CalledField.perms = WRITE
    /\ FieldValue(call.before, CalledField) # {}
    /\ call.ret = {}

\* C6 (as claimed): on a permission-checked register, set_<field>(v) on a
\* READ_WRITE field with v < 2^(end-start+1) returns true and leaves v in
\* bits start..end, and a following get_<field>() returns v.
C6_ReadWriteBothWays ==
    [][ /\ ( /\ decl.with_perms /\ call'.op = "set_field"
             /\ decl.fields[call'.field].perms = READ_WRITE
             /\ Fits(call'.value, FieldWidth(decl.fields[call'.field])) )
           => ( /\ call'.ret = FromBool(TRUE)
                /\ FieldValue(register_raw', decl.fields[call'.field])
                     = call'.value )
        /\ ( /\ decl.with_perms /\ call.op = "set_field"
             /\ CalledField.perms = READ_WRITE
             /\ Fits(call.value, FieldWidth(CalledField))
             /\ call'.op = "get_field" /\ call'.field = call.field )
           => call'.ret = call.value ]_vars

\* C7: set_register_value(x) always stores x, and a following
\* get_register_value() returns x, for every kind of register.
C7_RegisterRoundTrip ==
    [][ /\ (call'.op = "set_register_value" => register_raw' = call'.value)
        /\ (call.op = "set_register_value" /\ call'.op = "get_register_value")
           => call'.ret = call.value ]_vars

\* get_register_value() returned 0xDEADBEEF, which only a
\* set_register_value(0xDEADBEEF) puts into a register.
C7_Witness ==
    /\ call.op = "get_register_value"
    /\ decl.width = 32
    /\ call.ret = Lit_DEADBEEF

\* C8: a new register holds 0, clear_register_value() stores 0, and a
\* get_register_value() that follows either returns 0.
C8_ClearResets ==
    [][ /\ (call'.op = "clear_register_value" => register_raw' = {})
        /\ ( /\ call.op \in {"clear_register_value", "construct"}
             /\ call'.op = "get_register_value" )
           => call'.ret = {} ]_vars

\* A register whose raw value a field write had changed was cleared.
C8_Witness ==
    /\ call.op = "clear_register_value"
    /\ call.before # {}
    /\ call.before \notin RawInputs(decl.width)
    /\ register_raw = {}

\* C9 (as claimed): get_<field>() on a readable field returns the bits
\* start..end of register_raw, right-aligned to bit 0.
C9_ExtractMatchesReference ==
    ( /\ call.op = "get_field"
      /\ (decl.with_perms => CalledField.perms \in {READ, READ_WRITE}) )
    => call.ret = FieldValue(call.before, CalledField)

\* C10: on a permission-checked register, set_register_value(x) and
\* clear_register_value() write the bits of READ and NONE fields, and
\* get_register_value() returns the bits of WRITE and NONE fields.
C10_WholeRegisterIgnoresPerms ==
    decl.with_perms =>
      \A f \in DOMAIN decl.fields :
        LET fd == decl.fields[f] IN
        /\ (call.op = "set_register_value" /\ fd.perms \in {READ, NONE})
           => register_raw \cap FieldBits(fd) = call.value \cap FieldBits(fd)
        /\ (call.op = "clear_register_value" /\ fd.perms \in {READ, NONE})
           => register_raw \cap FieldBits(fd) = {}
        /\ (call.op = "get_register_value" /\ fd.perms \in {WRITE, NONE})
           => call.ret \cap FieldBits(fd) = call.before \cap FieldBits(fd)

\* set_register_value changed bits of the READ field and of the NONE field
\* of port_state_register.
C10_Witness ==
    /\ decl = port_state_register
    /\ call.op = "set_register_value"
    /\ \A f \in {2, 4} :
         (register_raw \cap FieldBits(decl.fields[f]))
           # (call.before \cap FieldBits(decl.fields[f]))

\* C11: every bit that belongs to no field holds what the most recent
\* set_register_value or clear_register_value gave it (0 if there was none),
\* whatever per-field calls were made since.
C11_UncoveredBitsPreserved ==
    (register_raw \ CoveredBits(decl)) = (written \ CoveredBits(decl))

\* On a 16-bit register whose field leaves 1 bits of the raw value uncovered
\* below and above it, a set_<field> succeeded and changed the raw value.
C11_Witness ==
    /\ decl.width = 16 /\ Len(decl.fields) = 1
    /\ call.op = "set_field" /\ call.ret = FromBool(TRUE)
    /\ register_raw # call.before
    /\ \E b \in written \ CoveredBits(decl) : b < decl.fields[1].start
    /\ \E b \in written \ CoveredBits(decl) : b > decl.fields[1].end

\* C12 (as claimed): every shift that get_<field> and set_<field> evaluate
\* has a shift amount smaller than the width of the integer shifted.
C12_NoFullWidthShift ==
    \A s \in ShiftsEvaluated(decl, call) : s.amount >= 0 /\ s.amount < s.bits

\* C13 (as claimed): on a register without permission checks,
\* set_<field>(v) with v < 2^(end-start+1) returns true and register_raw
\* becomes (register_raw with bits start..end cleared) | (v << start).
C13_SetSucceedsAndWrites ==
    ( /\ ~decl.with_perms /\ call.op = "set_field"
      /\ Fits(call.value, FieldWidth(CalledField)) )
    => /\ call.ret = FromBool(TRUE)
       /\ register_raw = (call.before \ FieldBits(CalledField))
                         \cup {b + CalledField.start : b \in call.value}

\* C14: get_register_value() and every get_<field>(), allowed or denied,
\* leave the register as it was, so a read changes nothing a later call
\* depends on.
C14_ReadsLeaveStateUnchanged ==
    [][ call'.op \in {"get_register_value", "get_field"}
        => (register_raw' = register_raw /\ decl' = decl) ]_vars

\* A get_<field>() denied by permission NONE was made on a register whose
\* bits of that field are not all 0, after a field write had changed the
\* register.
C14_Witness ==
    /\ decl.with_perms /\ call.op = "get_field"
    /\ CalledField.perms = NONE
    /\ FieldValue(call.before, CalledField) # {}
    /\ register_raw # written
    /\ register_raw = call.before

\* C15 (as claimed): on a permission-checked register get_<field>() reads
\* the field exactly when its permission is READ or READ_WRITE (and returns
\* 0 otherwise), set_<field>(v) with v < 2^(end-start+1) succeeds exactly
\* when it is WRITE or READ_WRITE, and on a WRITE field such a set leaves v
\* in bits start..end of register_raw while get_<field>() still fails.
C15_PermissionMatrix ==
    decl.with_perms =>
      /\ (call.op = "get_field")
         => call.ret =
              IF CalledField.perms \in {READ, READ_WRITE}
              THEN GetField(DECLARE_REGISTER(decl.width, decl.fields),
                            call.before, call.field)
              ELSE FromBool(FALSE)
      /\ ( /\ call.op = "set_field"
           /\ Fits(call.value, FieldWidth(CalledField)) )
         => /\ call.ret = FromBool(CalledField.perms \in {WRITE, READ_WRITE})
            /\ (CalledField.perms = WRITE)
               => /\ FieldValue(register_raw, CalledField) = call.value
                  /\ GetField(decl, register_raw, call.field)
                       = FromBool(FALSE)

\* register_raw after set_<A>(a) and then set_<B>(b), starting from raw.
\* Two disjoint fields are both narrower than the register, so neither range
\* check shifts by the full width.
SetThenSet(d, raw, A, a, B, b) ==
    SetField(d, SetField(d, raw, A, a, FALSE).raw, B, b, FALSE).raw

\* C16 (as claimed): for two disjoint fields A and B of a register without
\* permission checks, any raw value and in-range a and b, set_A(a); set_B(b)
\* and set_B(b); set_A(a) leave the same raw value, and then get_A() = a and
\* get_B() = b.  Stated in the state set_A(a) has reached from call.before,
\* for every B and b that may follow.
C16_DisjointSetsCommute ==
    ( /\ ~decl.with_perms /\ call.op = "set_field"
      /\ Fits(call.value, FieldWidth(CalledField)) )
    => \A B \in DOMAIN decl.fields :
         (B # call.field /\ Disjoint(CalledField, decl.fields[B])) =>
           \A b \in FittingInputs(decl.width, decl.fields[B]) :
             LET ab == SetField(decl, register_raw, B, b, FALSE).raw
                 ba == SetThenSet(decl, call.before, B, b,
                                  call.field, call.value)
             IN  /\ ab = ba
                 /\ GetField(decl, ab, call.field) = call.value
                 /\ GetField(decl, ab, B) = b

\* C17: a permission-checked register whose fields are all READ_WRITE
\* behaves as the register without permission checks that has the same
\* width and fields: from the same raw value every call returns what the
\* other register's call returns and leaves the same raw value.  Where the
\* range check is undefined (field [0,31]) both registers evaluate the same
\* expression, and they are compared under the same outcome of it.
C17_AllReadWriteEquivalent ==
    ( /\ decl.with_perms
      /\ \A f \in DOMAIN decl.fields : decl.fields[f].perms = READ_WRITE )
    => LET twin == DECLARE_REGISTER(decl.width, decl.fields) IN
       /\ (call.op = "get_field")
          => call.ret = GetField(twin, call.before, call.field)
       /\ (call.op = "set_field")
          => /\ \A ub \in UndefinedOutcomes(CalledField) :
                  SetField(decl, call.before, call.field, call.value, ub)
                    = SetField(twin, call.before, call.field, call.value, ub)
             /\ \E ub \in UndefinedOutcomes(CalledField) :
                  LET r == SetField(twin, call.before, call.field,
                                    call.value, ub)
                  IN  call.ret = FromBool(r.ret) /\ register_raw = r.raw
       /\ (call.op = "get_register_value") => call.ret = call.before
       /\ (call.op = "set_register_value") => register_raw = call.value
       /\ (call.op = "clear_register_value") => register_raw = {}

\* A set_<field> on an all-READ_WRITE permission-checked register has
\* changed a register that a whole-register write had loaded.
C17_Witness ==
    /\ decl.with_perms
    /\ \A f \in DOMAIN decl.fields : decl.fields[f].perms = READ_WRITE
    /\ call.op = "set_field"
    /\ call.ret = FromBool(TRUE)
    /\ written # {}
    /\ register_raw # call.before
    /\ GetField(decl, register_raw, call.field) # {}

\* C18: on a permission-checked register whose fields are pairwise
\* disjoint, whatever get_<field> and set_<field> calls have been made, the
\* bits of every field with permission READ or NONE equal the bits given to
\* them by the most recent set_register_value or clear_register_value (0 if
\* there was none).
C18_NonWritableFieldsStable ==
    ( /\ decl.with_perms
      /\ \A fa, fb \in DOMAIN decl.fields :
           fa # fb => Disjoint(decl.fields[fa], decl.fields[fb]) )
    => \A f \in DOMAIN decl.fields :
         decl.fields[f].perms \in {READ, NONE}
         => register_raw \cap FieldBits(decl.fields[f])
              = written \cap FieldBits(decl.fields[f])

\* A set_<field> on a writable field has changed the register while a READ
\* or NONE field of the same register holds 1 bits from the last
\* whole-register write.
C18_Witness ==
    /\ decl.with_perms
    /\ call.op = "set_field"
    /\ call.ret = FromBool(TRUE)
    /\ register_raw # call.before
    /\ \E f \in DOMAIN decl.fields :
         /\ f # call.field
         /\ decl.fields[f].perms \in {READ, NONE}
         /\ written \cap FieldBits(decl.fields[f]) # {}
         /\ Disjoint(decl.fields[f], CalledField)

====
